---- MODULE Spec2Model ----
(***************************************************************************)
(* A model of he_dns_manager.py: the HurricaneDNS client (login, zone and  *)
(* record scraping, add and delete of address records) and the command     *)
(* line shell main() that drives it.                                       *)
(*                                                                         *)
(* Python strings are modelled as sequences of one-character strings, so   *)
(* that isdigit, lower, strip, endswith and substring search are computed. *)
(* Python values that may be None, a string, a bool, a dict or a list are  *)
(* tagged records.  The remote console is the environment: the pages it    *)
(* serves are state (srv), the bodies of its answers to the login and the  *)
(* mutating POSTs and the operator's answer to the prompt are inputs.      *)
(***************************************************************************)
EXTENDS Integers, Sequences, FiniteSets, TLC

\* Bounds of the model.
MaxCalls == 2
MaxSubs == 3

-----------------------------------------------------------------------------
(* Python values *)

NoneV == [tag |-> "none"]
Str(s) == [tag |-> "str", s |-> s]
BoolV(b) == [tag |-> "bool", b |-> b]
DictV(d) == [tag |-> "dict", d |-> d]
ListV(l) == [tag |-> "list", l |-> l]

\* Python truthiness of a value (dicts of the model are never empty).
Truthy(v) ==
  CASE v.tag = "none" -> FALSE
    [] v.tag = "str" -> v.s # <<>>
    [] v.tag = "bool" -> v.b
    [] v.tag = "list" -> v.l # <<>>
    [] OTHER -> TRUE

\* How a call ends: it returns a value, raises an exception, or sys.exit()
\* ends the process (SystemExit is not an Exception: no handler of the
\* program catches it).
Return(v) == [kind |-> "return", val |-> v]
Raise(e) == [kind |-> "raise", val |-> [tag |-> "exc", e |-> e]]
Exit(n) == [kind |-> "exit", val |-> [tag |-> "int", n |-> n]]

-----------------------------------------------------------------------------
(* Strings *)

UpperLetters == <<"A", "B", "C", "D", "E", "F", "G", "H", "I", "J", "K", "L", "M",
                  "N", "O", "P", "Q", "R", "S", "T", "U", "V", "W", "X", "Y", "Z">>
LowerLetters == <<"a", "b", "c", "d", "e", "f", "g", "h", "i", "j", "k", "l", "m",
                  "n", "o", "p", "q", "r", "s", "t", "u", "v", "w", "x", "y", "z">>
DecimalDigits == <<"0", "1", "2", "3", "4", "5", "6", "7", "8", "9">>
Digits == {DecimalDigits[k] : k \in 1..Len(DecimalDigits)}

LowerChar(c) ==
  IF \E k \in 1..Len(UpperLetters) : UpperLetters[k] = c
  THEN LowerLetters[CHOOSE k \in 1..Len(UpperLetters) : UpperLetters[k] = c]
  ELSE c

\* str.lower()
Lower(s) == [k \in 1..Len(s) |-> LowerChar(s[k])]

\* str.isdigit(): non-empty and every character a digit
IsDigit(s) == Len(s) > 0 /\ \A k \in 1..Len(s) : s[k] \in Digits

\* pat in text
Contains(text, pat) ==
  \E k \in 0..(Len(text) - Len(pat)) : SubSeq(text, k + 1, k + Len(pat)) = pat

\* str.endswith(suffix)
EndsWith(s, suffix) ==
  /\ Len(suffix) <= Len(s)
  /\ SubSeq(s, Len(s) - Len(suffix) + 1, Len(s)) = suffix

\* str.strip(): leading and trailing blanks removed
RECURSIVE LStrip(_)
LStrip(s) == IF s # <<>> /\ Head(s) = " " THEN LStrip(Tail(s)) ELSE s
RECURSIVE RStrip(_)
RStrip(s) ==
  IF s # <<>> /\ s[Len(s)] = " " THEN RStrip(SubSeq(s, 1, Len(s) - 1)) ELSE s
Strip(s) == RStrip(LStrip(s))

\* The group of re.search(r'...=(\d+)', text) where text is what follows the
\* '=': the longest run of digits at its start.
RECURSIVE DigitRun(_)
DigitRun(s) ==
  IF s # <<>> /\ Head(s) \in Digits THEN <<Head(s)>> \o DigitRun(Tail(s)) ELSE <<>>

\* The literals of the source.
INCORRECT_LOGIN == <<"I", "n", "c", "o", "r", "r", "e", "c", "t", " ", "l", "o", "g", "i", "n">>
SUCCESSFULLY_ADDED == <<"s", "u", "c", "c", "e", "s", "s", "f", "u", "l", "l", "y", " ", "a", "d", "d", "e", "d">>
RECORD_UPDATED == <<"r", "e", "c", "o", "r", "d", " ", "u", "p", "d", "a", "t", "e", "d">>
SUCCESSFULLY_REMOVED == <<"s", "u", "c", "c", "e", "s", "s", "f", "u", "l", "l", "y", " ", "r", "e", "m", "o", "v", "e", "d">>
SUCCESSFULLY_DELETED == <<"s", "u", "c", "c", "e", "s", "s", "f", "u", "l", "l", "y", " ", "d", "e", "l", "e", "t", "e", "d">>
TYPE_A == <<"A">>
TYPE_AAAA == <<"A", "A", "A", "A">>
supported_record_types == {TYPE_A, TYPE_AAAA}

-----------------------------------------------------------------------------
(* The session and the requests it sends *)

\* One HTTP request: its purpose (ep), the zone id, record id, record name,
\* type, content and TTL it carries, whether the client held an authenticated
\* session when it sent it, and the response it got.
Request(ep) ==
  [ep |-> ep, zone |-> NoneV, rid |-> NoneV, name |-> NoneV, type |-> NoneV,
   content |-> NoneV, ttl |-> NoneV, auth |-> FALSE, resp |-> NoneV]

\* A response read by the client: the request threw (exc), or it set the
\* cookies and carried the body text.  The listing pages are the console's
\* state (srv); their requests log no response.
Response(cookies, text) == [tag |-> "resp", exc |-> FALSE, cookies |-> cookies, text |-> text]
Thrown == [tag |-> "resp", exc |-> TRUE, cookies |-> {}, text |-> <<>>]

\* session.get / session.post: the request is appended to the call's log.
Send(ctx, req, resp) ==
  [ctx EXCEPT !.reqs = Append(@, [req EXCEPT !.auth = ctx.logged_in, !.resp = resp])]

-----------------------------------------------------------------------------
(* The console's side of the two mutating POSTs *)

\* str(n) of a natural number
RECURSIVE DecimalStr(_)
DecimalStr(n) ==
  IF n < 10 THEN <<DecimalDigits[n + 1]>>
  ELSE DecimalStr(n \div 10) \o <<DecimalDigits[(n % 10) + 1]>>

\* The console added the record iff it answers with its success page.  A
\* record added gets an id no earlier record had.
ConsoleAdd(srv, req, body) ==
  IF /\ Contains(Lower(body), SUCCESSFULLY_ADDED)
     /\ req.zone.tag = "str" /\ req.zone.s \in DOMAIN srv.recPages
  THEN [srv EXCEPT
          !.recPages[req.zone.s] =
             Append(@, [cls |-> "dns_tr",
                        link |-> Str(<<"9">> \o DecimalStr(srv.serial)),
                        cells |-> <<req.zone.s, <<"9">> \o DecimalStr(srv.serial),
                                    req.name.s, req.type.s, req.ttl.s, <<"-">>,
                                    req.content.s>>]),
          !.serial = @ + 1]
  ELSE srv

\* The console removed the record iff it answers with one of its success pages.
ConsoleDelete(srv, req, body) ==
  IF /\ \/ Contains(Lower(body), SUCCESSFULLY_REMOVED)
        \/ Contains(Lower(body), SUCCESSFULLY_DELETED)
     /\ req.zone.tag = "str" /\ req.zone.s \in DOMAIN srv.recPages
  THEN [srv EXCEPT !.recPages[req.zone.s] =
          SelectSeq(@, LAMBDA row : Len(row.cells) < 2 \/ Str(Strip(row.cells[2])) # req.rid)]
  ELSE srv

-----------------------------------------------------------------------------
(* HurricaneDNS *)

\* Every method is a chain of operators, one per stage of its code; a stage
\* takes the result of the call the stage before it made: a record of the
\* client after the call (ctx) and of how the call ended (out).

\* login(): lo.get and lo.post are the console's responses to the two
\* requests of the exchange.
\* The heuristic looking at the failure marker alone.
login_heuristic_marker_only(ctx, text) ==
  [ctx |-> [ctx EXCEPT !.logged_in = ~Contains(text, INCORRECT_LOGIN)],
   out |-> Return(BoolV(~Contains(text, INCORRECT_LOGIN)))]

login_heuristic(ctx, text) ==
  [ctx |-> [ctx EXCEPT !.logged_in =
              ~Contains(text, INCORRECT_LOGIN) /\ Cardinality(ctx.cookies) > 0],
   out |-> Return(BoolV(~Contains(text, INCORRECT_LOGIN) /\ Cardinality(ctx.cookies) > 0))]

\* The POST outside the try block: its exception leaves login().
login_post_raises(ctx, lo) ==
  IF lo.post.exc
  THEN [ctx |-> Send(ctx, Request("login_post"), lo.post), out |-> Raise("ConnectionError")]
  ELSE login_heuristic(
         [Send(ctx, Request("login_post"), lo.post) EXCEPT !.cookies = @ \cup lo.post.cookies],
         lo.post.text)

login_post(ctx, lo) ==
  IF lo.post.exc
  THEN [ctx |-> Send(ctx, Request("login_post"), lo.post), out |-> Return(BoolV(FALSE))]
  ELSE login_heuristic(
         [Send(ctx, Request("login_post"), lo.post) EXCEPT !.cookies = @ \cup lo.post.cookies],
         lo.post.text)

\* login() without its first two lines: the exchange is made again.
login_always(ctx, lo) ==
  IF lo.get.exc
  THEN [ctx |-> Send(ctx, Request("login_get"), lo.get), out |-> Return(BoolV(FALSE))]
  ELSE login_post(
         [Send(ctx, Request("login_get"), lo.get) EXCEPT !.cookies = @ \cup lo.get.cookies],
         lo)

login(ctx, lo) ==
  IF ctx.logged_in THEN [ctx |-> ctx, out |-> Return(BoolV(TRUE))]
  ELSE IF lo.get.exc
  THEN [ctx |-> Send(ctx, Request("login_get"), lo.get), out |-> Return(BoolV(FALSE))]
  ELSE login_post(
         [Send(ctx, Request("login_get"), lo.get) EXCEPT !.cookies = @ \cup lo.get.cookies],
         lo)

\* A row of the domains table yields a zone when it has at least 3 cells and
\* an edit image whose onclick carries hosted_dns_zoneid=<digits>.  row.edit
\* is None without such an image or onclick, else the text after the '='.
ZoneRowMatches(row) ==
  /\ Len(row.cells) >= 3
  /\ Truthy(row.edit)
  /\ DigitRun(row.edit.s) # <<>>

ZoneOfRow(row) == [id |-> DigitRun(row.edit.s), name |-> Strip(row.cells[3])]

ZonesOfRows(rows) == [k \in 1..Len(rows) |-> ZoneOfRow(rows[k])]

ParseZones(page) == ZonesOfRows(SelectSeq(page, ZoneRowMatches))

\* get_zones(domain_name): the filter by name
\* The filter raising an exception where the code calls sys.exit(1).
FirstMatch_raises(matching_zones) ==
  IF matching_zones = <<>> THEN Raise("Domain not found")
  ELSE Return(DictV(matching_zones[1]))

FirstMatch(matching_zones) ==
  IF matching_zones = <<>> THEN Exit(1) ELSE Return(DictV(matching_zones[1]))

\* The filter comparing the names without regard to case.
get_zones_filter_ignoring_case(zones, domain_name) ==
  IF Truthy(domain_name)
  THEN FirstMatch(SelectSeq(zones, LAMBDA z : Lower(z.name) = Lower(domain_name.s)))
  ELSE Return(ListV(zones))

get_zones_filter(zones, domain_name) ==
  IF Truthy(domain_name)
  THEN FirstMatch(SelectSeq(zones, LAMBDA z : Str(z.name) = domain_name))
  ELSE Return(ListV(zones))

\* get_zones() going on whatever login() returned.
get_zones_unchecked(l, domain_name) ==
  [ctx |-> Send(l.ctx, Request("zones"), NoneV),
   out |-> get_zones_filter(ParseZones(l.ctx.srv.zonesPage), domain_name)]

get_zones_logged(l, domain_name) ==
  IF ~Truthy(l.out.val) THEN [ctx |-> l.ctx, out |-> Raise("Login failed")]
  ELSE [ctx |-> Send(l.ctx, Request("zones"), NoneV),
        out |-> get_zones_filter(ParseZones(l.ctx.srv.zonesPage), domain_name)]

get_zones(ctx, domain_name, o) == get_zones_logged(login(ctx, o.login), domain_name)

\* The zone id of a zone given as a zone object, a numeric id or a name (the
\* same lines open get_records, add_record and delete_record).  A name that
\* no zone carries leaves zone_id as it was given.
FirstZoneId(hits, zone) == IF hits # <<>> THEN Str(hits[1].id) ELSE zone

resolve_by_name(g, zone) ==
  IF g.out.kind # "return" THEN g
  ELSE [ctx |-> g.ctx,
        out |-> Return(FirstZoneId(SelectSeq(g.out.val.l, LAMBDA z : Str(z.name) = zone),
                                   zone))]

resolve_zone_id(ctx, zone, o) ==
  IF zone.tag = "dict" /\ "id" \in DOMAIN zone.d
  THEN [ctx |-> ctx, out |-> Return(Str(zone.d.id))]
  ELSE IF zone.tag = "str" /\ IsDigit(zone.s)
  THEN [ctx |-> ctx, out |-> Return(zone)]
  ELSE resolve_by_name(get_zones(ctx, NoneV, o), zone)

\* The page the console serves for a zone id: no rows for an id it does not know.
PageOf(srv, zone_id) ==
  IF zone_id.tag = "str" /\ zone_id.s \in DOMAIN srv.recPages
  THEN srv.recPages[zone_id.s]
  ELSE <<>>

\* The id found in the first cell's edit/delete link, when there is one.
LinkFields(row) ==
  IF Truthy(row.link) THEN [id |-> row.link.s] ELSE [f \in {} |-> <<>>]

\* The fields read from the columns; they overwrite the id of the link.
ColumnFields(row) ==
  [id |-> Strip(row.cells[2]), name |-> Strip(row.cells[3]),
   type |-> Strip(row.cells[4]), ttl |-> Strip(row.cells[5])]

\* The id of the link kept when the row has one.
RecordOfRow_link_first(row) == LinkFields(row) @@ ColumnFields(row)

RecordOfRow(row) == ColumnFields(row) @@ LinkFields(row)

\* The rows taken whatever their type column holds.
RecordRowMatches_any_type(row) ==
  /\ row.cls \in {"dns_tr", "dns_tr_alt"}
  /\ Len(row.cells) >= 5

RecordRowMatches(row) ==
  /\ row.cls \in {"dns_tr", "dns_tr_alt"}
  /\ Len(row.cells) >= 5
  /\ RecordOfRow(row).type \in supported_record_types

RecordsOfRows(rows) == [k \in 1..Len(rows) |-> RecordOfRow(rows[k])]

ParseRecords(page) == RecordsOfRows(SelectSeq(page, RecordRowMatches))

\* get_records(zone)
get_records_fetch(z) ==
  IF z.out.kind # "return" THEN z
  ELSE [ctx |-> Send(z.ctx, [Request("records") EXCEPT !.zone = z.out.val], NoneV),
        out |-> Return(ListV(ParseRecords(PageOf(z.ctx.srv, z.out.val))))]

get_records_logged(l, zone, o) ==
  IF ~Truthy(l.out.val) THEN [ctx |-> l.ctx, out |-> Raise("Login failed")]
  ELSE get_records_fetch(resolve_zone_id(l.ctx, zone, o))

get_records(ctx, zone, o) == get_records_logged(login(ctx, o.login), zone, o)

\* record_exists(zone, record_name, record_type)
FirstRecord(hits) == IF hits # <<>> THEN DictV(hits[1]) ELSE NoneV

record_exists_match(g, record_name, record_type) ==
  IF g.out.kind # "return" THEN g
  ELSE [ctx |-> g.ctx,
        out |-> Return(FirstRecord(
                  SelectSeq(g.out.val.l,
                            LAMBDA r : Str(r.name) = record_name /\ r.type = record_type)))]

record_exists(ctx, zone, record_name, record_type, o) ==
  IF record_type \notin supported_record_types
  THEN [ctx |-> ctx, out |-> Raise("ValueError")]
  ELSE record_exists_match(get_records(ctx, zone, o), record_name, record_type)

\* add_record(zone, record_type, name, content, ttl, check_exists); o.body is
\* the body of the console's answer to the POST.
\* The markers looked for in the text as it came.
AddSucceeded_case_sensitive(text) ==
  \/ Contains(text, SUCCESSFULLY_ADDED)
  \/ Contains(text, RECORD_UPDATED)

AddSucceeded(text) ==
  \/ Contains(Lower(text), SUCCESSFULLY_ADDED)
  \/ Contains(Lower(text), RECORD_UPDATED)

\* An answer without a success marker taken for an expired session.
add_record_post_expires(ctx, req, body) ==
  [ctx |-> [Send(ctx, req, Response({}, body))
              EXCEPT !.srv = ConsoleAdd(@, req, body), !.logged_in = AddSucceeded(body)],
   out |-> Return(BoolV(AddSucceeded(body)))]

add_record_post(ctx, req, body) ==
  [ctx |-> [Send(ctx, req, Response({}, body)) EXCEPT !.srv = ConsoleAdd(@, req, body)],
   out |-> Return(BoolV(AddSucceeded(body)))]

\* e is the result of the existence check (None without one).  The message
\* of the duplicate guard reads existing_record['content'].
add_record_checked(e, zone_id, record_type, name, content, ttl, check_exists, o) ==
  IF e.out.kind # "return" THEN e
  ELSE IF check_exists /\ Truthy(e.out.val)
  THEN IF "content" \in DOMAIN e.out.val.d
       THEN [ctx |-> e.ctx, out |-> Return(BoolV(FALSE))]
       ELSE [ctx |-> e.ctx, out |-> Raise("KeyError")]
  ELSE add_record_post(
         e.ctx,
         [Request("add") EXCEPT !.zone = zone_id, !.rid = Str(<<>>),
            !.name = Str(name), !.type = Str(record_type),
            !.content = Str(content), !.ttl = Str(DecimalStr(ttl))],
         o.body)

add_record_resolved(z, record_type, name, content, ttl, check_exists, o) ==
  IF z.out.kind # "return" THEN z
  ELSE add_record_checked(
         IF check_exists
         THEN record_exists(z.ctx, z.out.val, Str(name), record_type, o)
         ELSE [ctx |-> z.ctx, out |-> Return(NoneV)],
         z.out.val, record_type, name, content, ttl, check_exists, o)

add_record_logged(l, zone, record_type, name, content, ttl, check_exists, o) ==
  IF ~Truthy(l.out.val) THEN [ctx |-> l.ctx, out |-> Raise("Login failed")]
  ELSE IF record_type \notin supported_record_types
  THEN [ctx |-> l.ctx, out |-> Raise("ValueError")]
  ELSE add_record_resolved(resolve_zone_id(l.ctx, zone, o),
                           record_type, name, content, ttl, check_exists, o)

add_record(ctx, zone, record_type, name, content, ttl, check_exists, o) ==
  add_record_logged(login(ctx, o.login),
                    zone, record_type, name, content, ttl, check_exists, o)

\* delete_record(zone, record_id, record_name, record_type, force_delete);
\* o.answer is what the operator types at the prompt, o.body the body of the
\* console's answer to the POST.
DeleteSucceeded(text) ==
  \/ Contains(Lower(text), SUCCESSFULLY_REMOVED)
  \/ Contains(Lower(text), SUCCESSFULLY_DELETED)

\* The POST sent a second time when the first answer lacks the marker.
delete_record_post_retry(ctx, req, body) ==
  IF DeleteSucceeded(body)
  THEN [ctx |-> [Send(ctx, req, Response({}, body))
                   EXCEPT !.srv = ConsoleDelete(@, req, body)],
        out |-> Return(BoolV(TRUE))]
  ELSE [ctx |-> Send(Send(ctx, req, Response({}, body)), req, Response({}, body)),
        out |-> Return(BoolV(FALSE))]

delete_record_post(ctx, req, body) ==
  [ctx |-> [Send(ctx, req, Response({}, body)) EXCEPT !.srv = ConsoleDelete(@, req, body)],
   out |-> Return(BoolV(DeleteSucceeded(body)))]

\* The gate asking, and deleting whatever the answer.
delete_record_confirm_any(ctx, zone_id, record_id, force_delete, o) ==
  delete_record_post(
    IF force_delete THEN ctx
    ELSE [ctx EXCEPT !.prompts =
            Append(@, [record_id |-> record_id, confirm |-> o.answer])],
    [Request("delete") EXCEPT !.zone = zone_id, !.rid = record_id], o.body)

\* The confirmation gate.
delete_record_confirm(ctx, zone_id, record_id, force_delete, o) ==
  IF force_delete
  THEN delete_record_post(
         ctx, [Request("delete") EXCEPT !.zone = zone_id, !.rid = record_id], o.body)
  ELSE IF Lower(o.answer) # <<"y">>
  THEN [ctx |-> [ctx EXCEPT !.prompts =
                   Append(@, [record_id |-> record_id, confirm |-> o.answer])],
        out |-> Return(BoolV(FALSE))]
  ELSE delete_record_post(
         [ctx EXCEPT !.prompts =
            Append(@, [record_id |-> record_id, confirm |-> o.answer])],
         [Request("delete") EXCEPT !.zone = zone_id, !.rid = record_id], o.body)

\* e is the result of the lookup by name.
delete_record_found(e, zone_id, force_delete, o) ==
  IF e.out.kind # "return" THEN e
  ELSE IF ~Truthy(e.out.val) THEN [ctx |-> e.ctx, out |-> Return(BoolV(FALSE))]
  ELSE delete_record_confirm(e.ctx, zone_id, Str(e.out.val.d.id), force_delete, o)

\* The lookup by name made even when a record_id is given.
delete_record_resolved_by_name(z, record_id, record_name, record_type, force_delete, o) ==
  IF z.out.kind # "return" THEN z
  ELSE IF Truthy(record_name)
  THEN delete_record_found(
         record_exists(z.ctx, z.out.val, record_name, record_type, o),
         z.out.val, force_delete, o)
  ELSE delete_record_confirm(z.ctx, z.out.val, record_id, force_delete, o)

delete_record_resolved(z, record_id, record_name, record_type, force_delete, o) ==
  IF z.out.kind # "return" THEN z
  ELSE IF ~Truthy(record_id) /\ Truthy(record_name)
  THEN delete_record_found(
         record_exists(z.ctx, z.out.val, record_name, record_type, o),
         z.out.val, force_delete, o)
  ELSE delete_record_confirm(z.ctx, z.out.val, record_id, force_delete, o)

delete_record_logged(l, zone, record_id, record_name, record_type, force_delete, o) ==
  IF ~Truthy(l.out.val) THEN [ctx |-> l.ctx, out |-> Raise("Login failed")]
  ELSE IF record_type \notin supported_record_types
  THEN [ctx |-> l.ctx, out |-> Raise("ValueError")]
  ELSE delete_record_resolved(resolve_zone_id(l.ctx, zone, o),
                              record_id, record_name, record_type, force_delete, o)

delete_record(ctx, zone, record_id, record_name, record_type, force_delete, o) ==
  delete_record_logged(login(ctx, o.login),
                       zone, record_id, record_name, record_type, force_delete, o)

-----------------------------------------------------------------------------
(* The inputs of the model *)

TYPE_CNAME == <<"C", "N", "A", "M", "E">>
DOMAIN_EC == <<"e", ".", "c">>          \* a domain of the account
DOMAIN_NO == <<"n", ".", "o">>          \* a domain the account does not have
NAME_A == <<"a", ".", "e", ".", "c">>      \* "a" under DOMAIN_EC
NAME_B == <<"b", ".", "e", ".", "c">>
IP == <<":", ":", "1">>
DefaultTTL == 300

\* Pages of the account's zone list: a header row, a zone whose name differs
\* in case, a padded name, a row without an edit control; two zones of one
\* name; no table at all.
ZoneRow(name, edit) == [cells |-> <<<<>>, <<>>, name>>, edit |-> edit]
ZonePages ==
  { << [cells |-> <<>>, edit |-> NoneV],
       ZoneRow(<<"E", ".", "c">>, Str(<<"2">>)),
       ZoneRow(<<" ">> \o DOMAIN_EC \o <<" ">>, Str(<<"1", "'">>)),
       ZoneRow(DOMAIN_NO, NoneV) >>,
    << ZoneRow(DOMAIN_EC, Str(<<"2">>)), ZoneRow(DOMAIN_EC, Str(<<"1">>)) >>,
    << >> }

\* Pages of a zone's records.
RecordRow(cls, link, id, name, type) ==
  [cls |-> cls, link |-> link,
   cells |-> <<<<"1">>, id, name, type, <<"3", "0", "0">>, <<"-">>, IP>>]
RecordPages ==
  { << >>,
    << RecordRow("dns_tr", Str(<<"5">>), <<"5">>, NAME_A, TYPE_A),
       RecordRow("dns_tr_alt", NoneV, <<"6">>, NAME_B, TYPE_CNAME) >>,
    << RecordRow("dns_tr", Str(<<"4">>), <<>>, NAME_A, TYPE_AAAA),
       [cls |-> "dns_tr_alt", link |-> NoneV, cells |-> <<<<"1">>, <<"7">>, NAME_A>>],
       RecordRow("header", NoneV, <<"8">>, NAME_A, TYPE_A),
       RecordRow("dns_tr_alt", Str(<<"3">>), <<" ", "9">>, NAME_B, <<"A", " ">>) >> }

ConsoleStates ==
  { [zonesPage |-> zp,
     recPages |-> (<<"1">> :> rp) @@ (<<"2">> :> <<>>),
     serial |-> 1] : zp \in ZonePages, rp \in RecordPages }

\* What the console may do during a login exchange: set a cookie on either
\* response and greet; set no cookie at all; refuse the password; fail.
WELCOME == <<"W", "e", "l", "c", "o", "m", "e">>
REFUSED == <<"I", "n", "c", "o", "r", "r", "e", "c", "t", " ", "l", "o", "g", "i", "n", "!">>
Session == {"CGISESSID"}
NoExchange == [get |-> Thrown, post |-> Thrown]
LoginOracles ==
  { [get |-> Response(Session, <<>>), post |-> Response({}, WELCOME)],
    [get |-> Response({}, <<>>), post |-> Response(Session, WELCOME)],
    [get |-> Response({}, <<>>), post |-> Response({}, WELCOME)],
    [get |-> Response(Session, <<>>), post |-> Response(Session, REFUSED)],
    [get |-> Thrown, post |-> Thrown],
    [get |-> Response(Session, <<>>), post |-> Thrown] }

AddBodies == { <<"S", "u", "c", "c", "e", "s", "s", "f", "u", "l", "l", "y", " ", "a", "d", "d", "e", "d">>, <<"R", "e", "c", "o", "r", "d", " ", "U", "p", "d", "a", "t", "e", "d">>, <<"E", "r", "r", "o", "r">> }
DeleteBodies == { <<"S", "u", "c", "c", "e", "s", "s", "f", "u", "l", "l", "y", " ", "r", "e", "m", "o", "v", "e", "d">>, <<"S", "u", "c", "c", "e", "s", "s", "f", "u", "l", "l", "y", " ", "D", "e", "l", "e", "t", "e", "d">>, <<"E", "r", "r", "o", "r">> }
Answers == { <<"y">>, <<"Y">>, <<"n">>, <<>> }

\* A client that is logged in exchanges nothing with the console's login
\* page, and a forced deletion asks the operator nothing.
LoginOraclesOf(li) == IF li THEN {NoExchange} ELSE LoginOracles
AnswersOf(force) == IF force THEN {<<>>} ELSE Answers

Oracle(lo, body, answer) == [login |-> lo, body |-> body, answer |-> answer]

-----------------------------------------------------------------------------
(* State *)

VARIABLES
  mode,           \* "lib": a caller uses a HurricaneDNS object; "cli": main() runs
  logged_in,      \* HurricaneDNS.logged_in
  cookies,        \* the names of the cookies of HurricaneDNS.session
  srv,            \* the console: its zone list page and its record pages
  pc,             \* where the caller or main() stands
  last,           \* the client call made last: arguments, log, outcome
  ncalls,         \* client calls made by the caller ("lib")
  loginLog,       \* the result of every login exchange of the process, in order
  args,           \* the parsed command line ("cli")
  zone,           \* main's zone
  success_count,  \* main's success_count
  idx,            \* the position of main's loop in args.subdomains
  attempts,       \* every item main's loop has processed: its name, the outcome of
                  \* its call, whether a record of that name and type was listed
  exit_code       \* the exit status of the process, -1 while it runs

vars == <<mode, logged_in, cookies, srv, pc, last, ncalls, loginLog, args, zone,
          success_count, idx, attempts, exit_code>>

cliVars == <<args, zone, success_count, idx, attempts>>

NoCall == [op |-> "none"]

\* The client at the start of a call.
Ctx == [logged_in |-> logged_in, cookies |-> cookies, srv |-> srv,
        reqs |-> <<>>, prompts |-> <<>>]

HasRequest(reqs, ep) == \E k \in 1..Len(reqs) : reqs[k].ep = ep

\* A listing of the records, fetched by one of the requests reqs from the
\* console, holds a record of this name and type.
Existed(console, reqs, name, type) ==
  \E k \in 1..Len(reqs) :
    /\ reqs[k].ep = "records"
    /\ \E j \in 1..Len(ParseRecords(PageOf(console, reqs[k].zone))) :
         /\ ParseRecords(PageOf(console, reqs[k].zone))[j].name = name
         /\ ParseRecords(PageOf(console, reqs[k].zone))[j].type = type

\* The effect of a client call with result r on the client, the console and
\* the record of the call.
Called(op, a, r) ==
  /\ logged_in' = r.ctx.logged_in
  /\ cookies' = r.ctx.cookies
  /\ srv' = r.ctx.srv
  /\ last' = [op |-> op, args |-> a, was |-> logged_in, before |-> srv,
              out |-> r.out, reqs |-> r.ctx.reqs, prompts |-> r.ctx.prompts]
  /\ loginLog' = IF HasRequest(r.ctx.reqs, "login_get")
                 THEN Append(loginLog, r.ctx.logged_in)
                 ELSE loginLog

\* Arguments a caller of the class passes.
ZoneArgs ==
  { DictV([id |-> <<"1">>, name |-> DOMAIN_EC]), Str(<<"1">>), Str(DOMAIN_EC),
    Str(DOMAIN_NO) }
TypeArgs == {TYPE_A, TYPE_AAAA, TYPE_CNAME}
DeleteTargets ==
  { [record_id |-> NoneV, record_name |-> Str(NAME_A)],
    [record_id |-> Str(<<"5">>), record_name |-> Str(NAME_A)],
    [record_id |-> NoneV, record_name |-> NoneV] }

\* Command lines: the command ("" when none is given); subdomains that are a
\* bare label, a name under the domain and a dotted name outside it.
SubdomainArgs == {<<"a">>, NAME_B, <<"a", ".", "x">>}
SeqsUpTo(S, n) == UNION {[1..k -> S] : k \in 1..n}
CommandLine(command, domain, z, subdomains, content, type, force) ==
  [command |-> command, domain |-> domain, zone |-> z, subdomains |-> subdomains,
   content |-> content, type |-> type, ttl |-> DefaultTTL, force_delete |-> force]
DomainArgs == {NoneV, Str(DOMAIN_EC), Str(DOMAIN_NO)}
CommandLines ==
  {CommandLine("", NoneV, NoneV, <<>>, NoneV, TYPE_A, FALSE)}
  \cup {CommandLine("list-zones", d, NoneV, <<>>, NoneV, TYPE_A, FALSE) :
          d \in DomainArgs}
  \cup {CommandLine("list-records", d, z, <<>>, NoneV, TYPE_A, FALSE) :
          d \in DomainArgs, z \in {NoneV, Str(<<"1">>), Str(DOMAIN_EC), Str(DOMAIN_NO)}}
  \cup {CommandLine("add-subdomain", d, NoneV, subs, c, t, FALSE) :
          d \in DomainArgs, subs \in SeqsUpTo(SubdomainArgs, MaxSubs),
          c \in {NoneV, Str(IP)}, t \in supported_record_types}
  \cup {CommandLine("delete-subdomain", d, NoneV, subs, NoneV, t, f) :
          d \in DomainArgs, subs \in SeqsUpTo(SubdomainArgs, MaxSubs),
          t \in supported_record_types, f \in BOOLEAN}

Init ==
  /\ mode \in {"lib", "cli"}
  /\ logged_in = FALSE
  /\ cookies = {}
  /\ srv \in ConsoleStates
  /\ last = NoCall
  /\ ncalls = 0
  /\ loginLog = <<>>
  /\ zone = NoneV
  /\ success_count = 0
  /\ idx = 0
  /\ attempts = <<>>
  /\ exit_code = -1
  /\ \/ mode = "lib" /\ pc = "ready" /\ args = NoneV
     \/ mode = "cli" /\ pc = "start" /\ args \in CommandLines

-----------------------------------------------------------------------------
(* A caller of the class *)

CanCall == mode = "lib" /\ pc = "ready" /\ ncalls < MaxCalls

\* The caller gets the result r of a call: sys.exit() ends the process, a
\* value or an exception is the caller's to handle.
Caller(op, a, r) ==
  /\ Called(op, a, r)
  /\ ncalls' = ncalls + 1
  /\ pc' = IF r.out.kind = "exit" THEN "exited" ELSE "called"
  /\ exit_code' = IF r.out.kind = "exit" THEN r.out.val.n ELSE exit_code
  /\ UNCHANGED <<mode, cliVars>>

CallLogin ==
  /\ CanCall
  /\ \E lo \in LoginOraclesOf(logged_in) :
       Caller("login", NoneV, login(Ctx, lo))

CallGetZones ==
  /\ CanCall
  /\ \E domain_name \in {NoneV, Str(DOMAIN_EC), Str(DOMAIN_NO)},
        lo \in LoginOraclesOf(logged_in) :
       Caller("get_zones", [domain_name |-> domain_name],
              get_zones(Ctx, domain_name, Oracle(lo, <<>>, <<>>)))

CallGetRecords ==
  /\ CanCall
  /\ \E z \in ZoneArgs, lo \in LoginOraclesOf(logged_in) :
       Caller("get_records", [zone |-> z],
              get_records(Ctx, z, Oracle(lo, <<>>, <<>>)))

CallRecordExists ==
  /\ CanCall
  /\ \E z \in ZoneArgs, t \in TypeArgs, lo \in LoginOraclesOf(logged_in) :
       Caller("record_exists",
              [zone |-> z, record_name |-> Str(NAME_A), record_type |-> t],
              record_exists(Ctx, z, Str(NAME_A), t, Oracle(lo, <<>>, <<>>)))

CallAddRecord ==
  /\ CanCall
  /\ \E z \in ZoneArgs, t \in TypeArgs, check \in BOOLEAN,
        lo \in LoginOraclesOf(logged_in), body \in AddBodies :
       Caller("add_record",
              [zone |-> z, record_type |-> t, name |-> NAME_A, content |-> IP,
               ttl |-> DefaultTTL, check_exists |-> check],
              add_record(Ctx, z, t, NAME_A, IP, DefaultTTL, check,
                         Oracle(lo, body, <<>>)))

CallDeleteRecord ==
  /\ CanCall
  /\ \E z \in ZoneArgs, target \in DeleteTargets, t \in TypeArgs, force \in BOOLEAN,
        lo \in LoginOraclesOf(logged_in), body \in DeleteBodies :
       \E answer \in AnswersOf(force) :
         Caller("delete_record",
                [zone |-> z, record_id |-> target.record_id,
                 record_name |-> target.record_name, record_type |-> t,
                 force_delete |-> force],
                delete_record(Ctx, z, target.record_id, target.record_name, t, force,
                              Oracle(lo, body, answer)))

\* The caller has handled the result and goes on.
CallerContinues ==
  /\ mode = "lib" /\ pc = "called"
  /\ pc' = "ready"
  /\ last' = NoCall
  /\ UNCHANGED <<mode, logged_in, cookies, srv, ncalls, loginLog, cliVars, exit_code>>

LibNext ==
  \/ CallLogin
  \/ CallGetZones
  \/ CallGetRecords
  \/ CallRecordExists
  \/ CallAddRecord
  \/ CallDeleteRecord
  \/ CallerContinues

-----------------------------------------------------------------------------
(* main() *)

\* The process ends with exit status n.
SysExit(n) == pc' = "exited" /\ exit_code' = n

\* A client call of main(): sys.exit() inside the call ends the process with
\* the call's status, an exception is caught by main's handler, which exits 1.
Failed(r) == SysExit(IF r.out.kind = "exit" THEN r.out.val.n ELSE 1)

\* The name main() passes for a subdomain given on the command line.
FullName(subdomain, domain) ==
  IF ~EndsWith(subdomain, domain)
  THEN IF ~Contains(subdomain, <<".">>)
       THEN subdomain \o <<".">> \o domain
       ELSE subdomain
  ELSE subdomain

\* zone['id'] if zone else None
ZoneIdOf(z) == IF Truthy(z) THEN Str(z.d.id) ELSE NoneV

\* No command: the help is printed.
MainHelp ==
  /\ mode = "cli" /\ pc = "start" /\ args.command = ""
  /\ SysExit(0)
  /\ UNCHANGED <<mode, logged_in, cookies, srv, last, ncalls, loginLog, cliVars>>

\* --domain: the zone is looked up before the command is dispatched.
DomainLookedUp(r) ==
  /\ Called("get_zones", [domain_name |-> args.domain], r)
  /\ IF r.out.kind = "return"
     THEN zone' = r.out.val /\ pc' = "dispatch" /\ UNCHANGED exit_code
     ELSE Failed(r) /\ UNCHANGED zone

MainDomain ==
  /\ mode = "cli" /\ pc = "start" /\ args.command # ""
  /\ \/ /\ Truthy(args.domain)
        /\ \E lo \in LoginOraclesOf(logged_in) :
             DomainLookedUp(get_zones(Ctx, args.domain, Oracle(lo, <<>>, <<>>)))
     \/ /\ ~Truthy(args.domain)
        /\ pc' = "dispatch"
        /\ UNCHANGED <<logged_in, cookies, srv, last, loginLog, zone, exit_code>>
  /\ UNCHANGED <<mode, ncalls, args, success_count, idx, attempts>>

\* A listing command ends the process once the listing is printed.
Listed(op, a, r) ==
  /\ Called(op, a, r)
  /\ IF r.out.kind = "return" THEN SysExit(0) ELSE Failed(r)

MainListZones ==
  /\ mode = "cli" /\ pc = "dispatch" /\ args.command = "list-zones"
  /\ \E lo \in LoginOraclesOf(logged_in) :
       Listed("get_zones", [domain_name |-> NoneV],
              get_zones(Ctx, NoneV, Oracle(lo, <<>>, <<>>)))
  /\ UNCHANGED <<mode, ncalls, cliVars>>

\* args.zone or (zone['id'] if zone else None)
TargetZone == IF Truthy(args.zone) THEN args.zone ELSE ZoneIdOf(zone)

MainListRecords ==
  /\ mode = "cli" /\ pc = "dispatch" /\ args.command = "list-records"
  /\ IF ~Truthy(TargetZone)
     THEN /\ SysExit(1)
          /\ UNCHANGED <<logged_in, cookies, srv, last, loginLog>>
     ELSE \E lo \in LoginOraclesOf(logged_in) :
            Listed("get_records", [zone |-> TargetZone],
                   get_records(Ctx, TargetZone, Oracle(lo, <<>>, <<>>)))
  /\ UNCHANGED <<mode, ncalls, cliVars>>

\* A loop that stops at the first item that does not succeed.
LoopItem_stops(op, a, full_name, r) ==
  /\ Called(op, a, r)
  /\ attempts' = Append(attempts,
                        [name |-> full_name, out |-> r.out,
                         existed |-> Existed(srv, r.ctx.reqs, full_name, args.type)])
  /\ IF r.out.kind = "return"
     THEN /\ success_count' = IF Truthy(r.out.val) THEN success_count + 1
                              ELSE success_count
          /\ idx' = IF Truthy(r.out.val) THEN idx + 1 ELSE Len(args.subdomains) + 1
          /\ UNCHANGED <<pc, exit_code>>
     ELSE Failed(r) /\ UNCHANGED <<success_count, idx>>

\* One pass of a loop over args.subdomains, r the result of its client call.
LoopItem(op, a, full_name, r) ==
  /\ Called(op, a, r)
  /\ attempts' = Append(attempts,
                        [name |-> full_name, out |-> r.out,
                         existed |-> Existed(srv, r.ctx.reqs, full_name, args.type)])
  /\ IF r.out.kind = "return"
     THEN /\ success_count' = IF Truthy(r.out.val) THEN success_count + 1
                              ELSE success_count
          /\ idx' = idx + 1
          /\ UNCHANGED <<pc, exit_code>>
     ELSE Failed(r) /\ UNCHANGED <<success_count, idx>>

\* After a loop: the count is reported and decides the exit status.
LoopEnd == SysExit(IF success_count = Len(args.subdomains) THEN 0 ELSE 1)

\* add-subdomain, up to the loop
MainAddBegin ==
  /\ mode = "cli" /\ pc = "dispatch" /\ args.command = "add-subdomain"
  /\ IF ~Truthy(args.domain) \/ ~Truthy(args.content)
     THEN SysExit(1) /\ UNCHANGED <<success_count, idx>>
     ELSE /\ success_count' = 0 /\ idx' = 1
          /\ pc' = "add_loop" /\ UNCHANGED exit_code
  /\ UNCHANGED <<mode, logged_in, cookies, srv, last, ncalls, loginLog, args, zone,
                 attempts>>

AddItem(full_name, o) ==
  LoopItem("add_record",
           [zone |-> ZoneIdOf(zone), record_type |-> args.type, name |-> full_name,
            content |-> args.content.s, ttl |-> args.ttl, check_exists |-> TRUE],
           full_name,
           add_record(Ctx, ZoneIdOf(zone), args.type, full_name, args.content.s,
                      args.ttl, TRUE, o))

MainAddItem ==
  /\ mode = "cli" /\ pc = "add_loop" /\ idx <= Len(args.subdomains)
  /\ \E lo \in LoginOraclesOf(logged_in), body \in AddBodies :
       AddItem(FullName(args.subdomains[idx], args.domain.s), Oracle(lo, body, <<>>))
  /\ UNCHANGED <<mode, ncalls, args, zone>>

MainAddEnd ==
  /\ mode = "cli" /\ pc = "add_loop" /\ idx > Len(args.subdomains)
  /\ LoopEnd
  /\ UNCHANGED <<mode, logged_in, cookies, srv, last, ncalls, loginLog, cliVars>>

\* delete-subdomain, up to the loop
MainDeleteBegin ==
  /\ mode = "cli" /\ pc = "dispatch" /\ args.command = "delete-subdomain"
  /\ IF ~Truthy(args.domain)
     THEN SysExit(1) /\ UNCHANGED <<success_count, idx>>
     ELSE /\ success_count' = 0 /\ idx' = 1
          /\ pc' = "delete_loop" /\ UNCHANGED exit_code
  /\ UNCHANGED <<mode, logged_in, cookies, srv, last, ncalls, loginLog, args, zone,
                 attempts>>

DeleteItem(full_name, o) ==
  LoopItem("delete_record",
           [zone |-> ZoneIdOf(zone), record_id |-> NoneV,
            record_name |-> Str(full_name), record_type |-> args.type,
            force_delete |-> args.force_delete],
           full_name,
           delete_record(Ctx, ZoneIdOf(zone), NoneV, Str(full_name), args.type,
                         args.force_delete, o))

MainDeleteItem ==
  /\ mode = "cli" /\ pc = "delete_loop" /\ idx <= Len(args.subdomains)
  /\ \E lo \in LoginOraclesOf(logged_in), body \in DeleteBodies,
        answer \in AnswersOf(args.force_delete) :
       DeleteItem(FullName(args.subdomains[idx], args.domain.s),
                  Oracle(lo, body, answer))
  /\ UNCHANGED <<mode, ncalls, args, zone>>

MainDeleteEnd ==
  /\ mode = "cli" /\ pc = "delete_loop" /\ idx > Len(args.subdomains)
  /\ LoopEnd
  /\ UNCHANGED <<mode, logged_in, cookies, srv, last, ncalls, loginLog, cliVars>>

MainNext ==
  \/ MainHelp
  \/ MainDomain
  \/ MainListZones
  \/ MainListRecords
  \/ MainAddBegin
  \/ MainAddItem
  \/ MainAddEnd
  \/ MainDeleteBegin
  \/ MainDeleteItem
  \/ MainDeleteEnd

Next == LibNext \/ MainNext
Spec == Init /\ [][Next]_vars

-----------------------------------------------------------------------------
(* Properties *)

Sent(ep) == HasRequest(last.reqs, ep)
LoginRequests == {"login_get", "login_post"}
ReturnedTrue(out) == out = Return(BoolV(TRUE))
ReturnedFalse(out) == out = Return(BoolV(FALSE))

\* The call made last fetched a listing that holds a record of the name and
\* type it was given.
DuplicateListed ==
  Existed(last.before, last.reqs, last.args.name, last.args.record_type)

\* C1: add_record with check_exists=True, when the zone's listing already
\* holds a record of the same name and type, returns False without raising
\* and issues no POST to the add endpoint.
C1_DuplicateAddReturnsFalse ==
  (last.op = "add_record" /\ last.args.check_exists /\ DuplicateListed)
    => (ReturnedFalse(last.out) /\ ~Sent("add"))

\* C2: add_record, delete_record and record_exists given a record type
\* outside {A, AAAA} fail with the invalid-argument error and issue no HTTP
\* request at all, whatever the state of the session.
C2_TypeValidationBeforeNetwork ==
  (/\ last.op \in {"add_record", "delete_record", "record_exists"}
   /\ last.args.record_type \notin {TYPE_A, TYPE_AAAA})
    => (last.out = Raise("ValueError") /\ last.reqs = <<>>)

\* C3: an add-subdomain batch with subdomains that already exist still
\* attempts every subdomain in order, counts the existing ones as failed
\* (their call returns False), counts the others by their outcome and exits 1.
C3_AddBatchPartialSuccess ==
  (/\ mode = "cli" /\ args.command = "add-subdomain" /\ pc = "exited"
   /\ \E k \in 1..Len(attempts) : attempts[k].existed)
    => /\ Len(attempts) = Len(args.subdomains)
       /\ \A k \in 1..Len(attempts) :
            /\ attempts[k].name = FullName(args.subdomains[k], args.domain.s)
            /\ attempts[k].existed => ReturnedFalse(attempts[k].out)
       /\ success_count = Cardinality({k \in 1..Len(attempts) : ReturnedTrue(attempts[k].out)})
       /\ exit_code = 1

\* The lookup of delete_record by name found a record, or there was no lookup.
DeleteTargetFound ==
  Sent("records") =>
    Existed(last.before, last.reqs, last.args.record_name.s, last.args.record_type)

\* C4: delete_record without force_delete, when the operator answers the
\* prompt with anything but 'y' or 'Y', returns False and issues no deletion
\* POST; with force_delete the prompt is never shown, and a call that has a
\* record to delete goes on to the deletion POST.
C4_DeleteConfirmationGate ==
  last.op = "delete_record" =>
    /\ (/\ ~last.args.force_delete
        /\ \E k \in 1..Len(last.prompts) : last.prompts[k].confirm \notin {<<"y">>, <<"Y">>})
         => (ReturnedFalse(last.out) /\ ~Sent("delete"))
    /\ last.args.force_delete => last.prompts = <<>>
    /\ (last.args.force_delete /\ last.out.kind = "return" /\ DeleteTargetFound)
         => (Sent("delete") /\ last.reqs[Len(last.reqs)].ep = "delete")

C4_Declined ==
  /\ last.op = "delete_record" /\ ~last.args.force_delete
  /\ last.prompts # <<>> /\ last.prompts[1].confirm = <<"n">>
  /\ ReturnedFalse(last.out)

\* C5: login() on a client that is logged in returns True and issues no
\* request; no call made while logged in issues a login request, so the
\* exchange that succeeded is the last of the process, and the only one of a
\* run of main().
C5_IdempotentLogin ==
  /\ (last.op # "none" /\ last.was)
       => \A k \in 1..Len(last.reqs) : last.reqs[k].ep \notin LoginRequests
  /\ (last.op = "login" /\ last.was)
       => (ReturnedTrue(last.out) /\ last.reqs = <<>>)
  /\ logged_in
       => /\ loginLog # <<>> /\ loginLog[Len(loginLog)]
          /\ \A k \in 1..(Len(loginLog) - 1) : ~loginLog[k]
  /\ mode = "cli" => Len(loginLog) <= 1

C5_LoginAgain == last.op = "login" /\ last.was /\ ReturnedTrue(last.out)

\* The zone given to the call made last is a name, the zone list was fetched
\* and no zone of it carries the name.
UnknownZoneName ==
  /\ last.args.zone.tag = "str" /\ ~IsDigit(last.args.zone.s)
  /\ Sent("zones")
  /\ \A k \in 1..Len(ParseZones(last.before.zonesPage)) :
       ParseZones(last.before.zonesPage)[k].name # last.args.zone.s

\* C6: get_records, add_record and delete_record given a zone name that no
\* zone of the account carries abort the command with a non-zero exit, and
\* issue no record listing, add POST or deletion POST for that zone.
C6_UnknownZoneNameAborts ==
  (last.op \in {"get_records", "add_record", "delete_record"} /\ UnknownZoneName)
    => /\ last.out.kind # "return"
       /\ \A k \in 1..Len(last.reqs) : last.reqs[k].ep \notin {"records", "add", "delete"}
       /\ mode = "cli" => (pc = "exited" /\ exit_code # 0)

\* The call made last was get_zones with a name that no scraped zone carries.
FilterMisses ==
  /\ last.op = "get_zones" /\ Truthy(last.args.domain_name)
  /\ Sent("zones")
  /\ \A k \in 1..Len(ParseZones(last.before.zonesPage)) :
       Str(ParseZones(last.before.zonesPage)[k].name) # last.args.domain_name

\* C7: get_zones(domain_name) with a name that equals no scraped zone name
\* ends the process with exit status 1 (no handler turns the exit into an
\* exception), returns no zone, and the zone list request is the last
\* request of the process.
C7_ZoneFilterExits ==
  /\ [](FilterMisses
          => /\ last.out = Exit(1)
             /\ pc = "exited" /\ exit_code = 1
             /\ zone = NoneV
             /\ last.reqs[Len(last.reqs)].ep = "zones")
  /\ [][pc = "exited" => UNCHANGED vars]_vars

C7_Exited == FilterMisses /\ pc = "exited" /\ exit_code = 1

\* C8: no request other than the two of the login exchange is sent while
\* logged_in is false; get_zones, get_records, add_record and delete_record
\* on a client not logged in start with the login exchange, and when it fails
\* they raise 'Login failed' having sent nothing else, and main() exits 1.
C8_AuthenticationFirst ==
  last.op # "none" =>
    /\ \A k \in 1..Len(last.reqs) :
         last.reqs[k].ep \notin LoginRequests => last.reqs[k].auth
    /\ (/\ last.op \in {"get_zones", "get_records", "add_record", "delete_record"}
        /\ ~last.was)
         => /\ last.reqs # <<>> /\ last.reqs[1].ep = "login_get"
            /\ ~logged_in
                 => /\ last.out = Raise("Login failed")
                    /\ \A k \in 1..Len(last.reqs) : last.reqs[k].ep \in LoginRequests
                    /\ mode = "cli" => (pc = "exited" /\ exit_code = 1)

C8_LoginFailed ==
  /\ last.op = "add_record" /\ ~last.was /\ ~logged_in
  /\ last.out = Raise("Login failed")

\* C9: delete_record without a record_id and with a record_name that no
\* listed record of the type carries returns False, shows no prompt and
\* issues no deletion POST; with a record_id it fetches no record listing.
C9_DeleteNotFoundIsSoft ==
  last.op = "delete_record" =>
    /\ (/\ ~Truthy(last.args.record_id) /\ Truthy(last.args.record_name)
        /\ Sent("records") /\ ~DeleteTargetFound)
         => (ReturnedFalse(last.out) /\ last.prompts = <<>> /\ ~Sent("delete"))
    /\ Truthy(last.args.record_id) => ~Sent("records")

C9_NotFound ==
  /\ last.op = "delete_record" /\ ~Truthy(last.args.record_id)
  /\ Sent("records") /\ ~DeleteTargetFound
  /\ ReturnedFalse(last.out)

\* C10: in delete-subdomain an item that fails softly does not end the loop:
\* the items are processed in order, success_count is the number of items
\* whose delete_record returned True, and once the loop is over the process
\* exits 0 iff success_count is the number of subdomains, else 1.
C10_DeleteBatch ==
  (mode = "cli" /\ args.command = "delete-subdomain") =>
    /\ success_count = Cardinality({k \in 1..Len(attempts) : ReturnedTrue(attempts[k].out)})
    /\ \A k \in 1..Len(attempts) :
         /\ attempts[k].name = FullName(args.subdomains[k], args.domain.s)
         /\ ReturnedFalse(attempts[k].out) => (k < idx /\ (pc = "exited" => idx > Len(args.subdomains)))
    /\ (pc = "exited" /\ idx >= 1)
         => /\ Len(attempts) = Len(args.subdomains)
            /\ exit_code = IF success_count = Len(args.subdomains) THEN 0 ELSE 1

C10_PartialBatch ==
  /\ mode = "cli" /\ args.command = "delete-subdomain" /\ pc = "exited"
  /\ Len(attempts) >= 2
  /\ ReturnedFalse(attempts[1].out) /\ ReturnedTrue(attempts[2].out)
  /\ exit_code = 1

\* The rows of the page that the call made last listed, and those of them
\* that are record rows of at least 5 cells whose type column is A or AAAA.
ListedRows == PageOf(last.before, last.reqs[Len(last.reqs)].zone)

RECURSIVE KeptRows(_)
KeptRows(rows) ==
  IF rows = <<>> THEN <<>>
  ELSE (IF /\ Head(rows).cls \in {"dns_tr", "dns_tr_alt"}
           /\ Len(Head(rows).cells) >= 5
           /\ Strip(Head(rows).cells[4]) \in {TYPE_A, TYPE_AAAA}
        THEN <<Head(rows)>> ELSE <<>>) \o KeptRows(Tail(rows))

\* C11: get_records returns exactly the record rows of the listed page that
\* have at least 5 cells and whose type column is A or AAAA, in their row
\* order; the other rows never appear and do not abort the scrape.
C11_RowFiltering ==
  (last.op = "get_records" /\ Sent("records"))
    => /\ last.out.kind = "return"
       /\ Len(last.out.val.l) = Len(KeptRows(ListedRows))
       /\ \A k \in 1..Len(last.out.val.l) :
            /\ last.out.val.l[k].name = Strip(KeptRows(ListedRows)[k].cells[3])
            /\ last.out.val.l[k].type = Strip(KeptRows(ListedRows)[k].cells[4])
            /\ last.out.val.l[k].ttl = Strip(KeptRows(ListedRows)[k].cells[5])

\* A listing whose page holds a CNAME row, and one with a row of 3 cells.
C11_RowsDropped ==
  /\ last.op = "get_records" /\ Sent("records")
  /\ Len(last.out.val.l) >= 1
  /\ Len(last.out.val.l) < Len(ListedRows)

\* C20: the id of every record get_records returns is the text of the second
\* cell of its row, whether or not the first cell's link carries an id and
\* whether or not the two differ.
C20_ColumnIdAuthoritative ==
  (last.op = "get_records" /\ Sent("records") /\ last.out.kind = "return")
    => \A k \in 1..Len(last.out.val.l) :
         k <= Len(KeptRows(ListedRows))
           => last.out.val.l[k].id = Strip(KeptRows(ListedRows)[k].cells[2])

\* A record returned whose row has a link id that differs from its id column.
C20_IdsDiffer ==
  /\ last.op = "get_records" /\ Sent("records") /\ last.out.kind = "return"
  /\ \E k \in 1..Len(last.out.val.l) :
       /\ Truthy(KeptRows(ListedRows)[k].link)
       /\ KeptRows(ListedRows)[k].link.s # last.out.val.l[k].id

\* The call made last went through both exchanges of a login, neither threw.
LoginCompleted ==
  /\ last.op # "none" /\ Len(last.reqs) >= 2
  /\ last.reqs[1].ep = "login_get" /\ ~last.reqs[1].resp.exc
  /\ last.reqs[2].ep = "login_post" /\ ~last.reqs[2].resp.exc

\* C12: after a login attempt whose two exchanges complete, logged_in, and
\* the value login() returns, is true iff the body of the POST's response
\* does not contain 'Incorrect login' and the cookie jar holds a cookie.
C12_LoginHeuristic ==
  LoginCompleted
    => /\ logged_in <=> (/\ ~Contains(last.reqs[2].resp.text, INCORRECT_LOGIN)
                          /\ cookies # {})
       /\ last.op = "login" => last.out = Return(BoolV(logged_in))

\* No failure marker, an empty cookie jar: login() returns False.
C12_NoCookie ==
  /\ LoginCompleted /\ last.op = "login"
  /\ ~Contains(last.reqs[2].resp.text, INCORRECT_LOGIN) /\ cookies = {}
  /\ ReturnedFalse(last.out)

\* An exchange of the login made by the call made last threw.
LoginThrew ==
  \E k \in 1..Len(last.reqs) : last.reqs[k].ep \in LoginRequests /\ last.reqs[k].resp.exc

\* C19: login() never raises; when one of its exchanges throws it returns
\* False and logged_in stays false, and a login() on a client not logged in
\* starts a fresh exchange whatever attempts failed before.
C19_LoginNeverRaises ==
  last.op = "login"
    => /\ last.out.kind = "return"
       /\ LoginThrew => (ReturnedFalse(last.out) /\ ~logged_in)
       /\ ~last.was => (last.reqs # <<>> /\ last.reqs[1].ep = "login_get")

\* A second attempt, after one that failed, whose exchange throws.
C19_ThrownAgain ==
  /\ last.op = "login" /\ LoginThrew /\ ReturnedFalse(last.out)
  /\ Len(loginLog) = 2 /\ ~loginLog[1]

\* How many requests of a kind the call made last sent.
CountRequests(ep) == Cardinality({k \in 1..Len(last.reqs) : last.reqs[k].ep = ep})

\* C13: nothing is retried: a call sends at most one add POST, at most one
\* deletion POST and at most one login exchange, and in a run of main() a
\* login that fails is the only login exchange of the process, which exits 1.
C13_NoRetries ==
  /\ last.op # "none"
       => /\ CountRequests("add") <= 1
          /\ CountRequests("delete") <= 1
          /\ CountRequests("login_get") <= 1
          /\ CountRequests("login_post") <= 1
  /\ (mode = "cli" /\ loginLog # <<>> /\ ~loginLog[1])
       => (Len(loginLog) = 1 /\ pc = "exited" /\ exit_code = 1)

\* A deletion POST answered without a success marker, and not sent again.
C13_FailedOnce ==
  /\ last.op = "delete_record" /\ CountRequests("delete") = 1
  /\ ReturnedFalse(last.out)

\* The call made last is an add_record that logged in, passed the type check
\* and was not stopped by the duplicate guard.
AddGoesOn ==
  /\ last.op = "add_record" /\ logged_in
  /\ last.args.record_type \in {TYPE_A, TYPE_AAAA}
  /\ ~(last.args.check_exists /\ DuplicateListed)

\* C14: such an add_record sends exactly one add POST, with an empty record
\* id and the type, name, content and TTL it was given, returns True iff the
\* lower-cased response text contains 'successfully added' or 'record
\* updated', and sends nothing after the POST.
C14_AddOutcome ==
  AddGoesOn
    => /\ CountRequests("add") = 1
       /\ last.reqs[Len(last.reqs)].ep = "add"
       /\ last.reqs[Len(last.reqs)].rid = Str(<<>>)
       /\ last.reqs[Len(last.reqs)].type = Str(last.args.record_type)
       /\ last.reqs[Len(last.reqs)].name = Str(last.args.name)
       /\ last.reqs[Len(last.reqs)].content = Str(last.args.content)
       /\ last.reqs[Len(last.reqs)].ttl = Str(DecimalStr(last.args.ttl))
       /\ last.out = Return(BoolV(
            \/ Contains(Lower(last.reqs[Len(last.reqs)].resp.text), SUCCESSFULLY_ADDED)
            \/ Contains(Lower(last.reqs[Len(last.reqs)].resp.text), RECORD_UPDATED)))

\* An add answered 'Record Updated', after the existence check found nothing.
C14_Updated ==
  /\ AddGoesOn /\ last.args.check_exists /\ Sent("records")
  /\ Contains(last.reqs[Len(last.reqs)].resp.text, <<"R", "e", "c", "o", "r", "d", " ", "U">>)
  /\ ReturnedTrue(last.out)

\* C15: delete_record shows the prompt and sends the deletion POST only with
\* a record id that is not empty, given by the caller or taken from the
\* matching record; a call with neither record_id nor record_name reaches
\* neither the prompt nor the POST.
C15_DeleteCarriesRecordId ==
  last.op = "delete_record"
    => /\ \A k \in 1..Len(last.prompts) : Truthy(last.prompts[k].record_id)
       /\ \A k \in 1..Len(last.reqs) :
            last.reqs[k].ep = "delete" => Truthy(last.reqs[k].rid)
       /\ (~Truthy(last.args.record_id) /\ ~Truthy(last.args.record_name))
            => (last.prompts = <<>> /\ ~Sent("delete"))

\* C16: logged_in starts false, becomes true only in a call whose login
\* exchange satisfies the success heuristic, never becomes false again, and
\* no call made once it is true sends a request of the login exchange.
C16_SessionMonotone ==
  /\ ~logged_in
  /\ [][/\ logged_in => logged_in'
        /\ (~logged_in /\ logged_in')
             => /\ last'.op # "none" /\ Len(last'.reqs) >= 2
                /\ last'.reqs[1].ep = "login_get" /\ last'.reqs[2].ep = "login_post"
                /\ ~Contains(last'.reqs[2].resp.text, INCORRECT_LOGIN)
                /\ cookies' # {}
        /\ (logged_in /\ last' # last /\ last'.op # "none")
             => \A k \in 1..Len(last'.reqs) : last'.reqs[k].ep \notin LoginRequests
       ]_vars

\* A call made while logged in raised, and the client is still logged in.
C16_StillLoggedIn ==
  /\ last.op # "none" /\ last.was /\ last.out.kind = "raise"
  /\ logged_in

\* The call made last got as far as resolving its zone argument.
ResolutionReached ==
  /\ last.op \in {"get_records", "add_record", "delete_record"} /\ logged_in
  /\ last.op # "get_records" => last.args.record_type \in {TYPE_A, TYPE_AAAA}

\* Every request about a zone's records that the call made last sent carries
\* this zone id.
ActsOnZone(id) ==
  \A k \in 1..Len(last.reqs) :
    last.reqs[k].ep \in {"records", "add", "delete"} => last.reqs[k].zone = Str(id)

\* The positions, in the zone list, of the zones named as the zone argument.
NamedZones ==
  {k \in 1..Len(ParseZones(last.before.zonesPage)) :
     Str(ParseZones(last.before.zonesPage)[k].name) = last.args.zone}

\* C17: a zone object with an id and a string of digits are used as the zone
\* id without a zone list request; any other value is a name: it costs
\* exactly one zone list request and resolves to the id of the first zone of
\* the list that carries the name.
C17_ZoneResolution ==
  ResolutionReached
    => IF last.args.zone.tag = "dict"
       THEN CountRequests("zones") = 0 /\ ActsOnZone(last.args.zone.d.id)
       ELSE IF last.args.zone.tag = "str" /\ IsDigit(last.args.zone.s)
       THEN CountRequests("zones") = 0 /\ ActsOnZone(last.args.zone.s)
       ELSE /\ CountRequests("zones") = 1
            /\ NamedZones # {}
                 => ActsOnZone(ParseZones(last.before.zonesPage)[
                                 CHOOSE k \in NamedZones : \A j \in NamedZones : k <= j].id)

\* The rows of the zone list that have at least 3 cells and an edit control
\* whose onclick carries a numeric zone id, and the zone read from such a row.
RECURSIVE KeptZoneRows(_)
KeptZoneRows(rows) ==
  IF rows = <<>> THEN <<>>
  ELSE (IF /\ Len(Head(rows).cells) >= 3
           /\ Head(rows).edit.tag = "str"
           /\ Head(rows).edit.s # <<>> /\ Head(Head(rows).edit.s) \in Digits
        THEN <<Head(rows)>> ELSE <<>>) \o KeptZoneRows(Tail(rows))

ZoneRead(row) == [id |-> DigitRun(row.edit.s), name |-> Strip(row.cells[3])]

\* The positions of the kept rows whose name is the name asked for.
NamedRows ==
  {k \in 1..Len(KeptZoneRows(last.before.zonesPage)) :
     Str(Strip(KeptZoneRows(last.before.zonesPage)[k].cells[3])) = last.args.domain_name}

\* C18: get_zones() returns, in row order, one zone per row of the domains
\* table that has at least 3 cells and an edit control with a numeric zone
\* id, and skips the others; get_zones(name) returns the first of these zones
\* whose name is exactly name, also when several carry it.
C18_ZoneListing ==
  (last.op = "get_zones" /\ Sent("zones"))
    => IF ~Truthy(last.args.domain_name)
       THEN /\ last.out.kind = "return"
            /\ Len(last.out.val.l) = Len(KeptZoneRows(last.before.zonesPage))
            /\ \A k \in 1..Len(last.out.val.l) :
                 last.out.val.l[k] = ZoneRead(KeptZoneRows(last.before.zonesPage)[k])
       ELSE NamedRows # {}
              => last.out = Return(DictV(ZoneRead(
                   KeptZoneRows(last.before.zonesPage)[
                     CHOOSE k \in NamedRows : \A j \in NamedRows : k <= j])))

\* A zone returned by name that stands behind a zone whose name differs from
\* it in case only.
C18_SecondRow ==
  /\ last.op = "get_zones" /\ Sent("zones") /\ Truthy(last.args.domain_name)
  /\ last.out.kind = "return"
  /\ 1 \notin NamedRows /\ 2 \in NamedRows

====
